---- MODULE Spec2Model ----
(***************************************************************************)
(* Rule-based cybercrime complaint triage (streamlit_app.py): the keyword  *)
(* classifier, the priority classifier, the unit routing and the case      *)
(* queue kept in the session state.                                        *)
(*                                                                         *)
(* A Python str is modelled as a sequence of one-character strings, so     *)
(* that lower(), strip(), the substring operator `in`, re.search and the   *)
(* f-string formatting of the case id are computed character by character. *)
(* The character U+017F (LATIN SMALL LETTER LONG S) is written "LONG_S".   *)
(***************************************************************************)
EXTENDS Integers, Sequences, FiniteSets, TLC

VARIABLES
    complaint_text,   \* value of the "Complaint Description" text area
    cases,            \* st.session_state.cases
    add_case,         \* the "Analyze & Add to Queue" button in the last script run
    clear_btn         \* the "Clear All Cases" button in the last script run

vars == <<complaint_text, cases, add_case, clear_btn>>

Range(s) == {s[i] : i \in DOMAIN s}

\* ---------------------------------------------------------------- tables

SocialMediaHarassment == <<"S","o","c","i","a","l"," ","M","e","d","i","a"," ","H","a","r","a","s","s","m","e","n","t">>
OnlineFinancialFraud  == <<"O","n","l","i","n","e"," ","F","i","n","a","n","c","i","a","l"," ","F","r","a","u","d"," ","/"," ","P","h","i","s","h","i","n","g">>
IdentityTheft         == <<"I","d","e","n","t","i","t","y"," ","T","h","e","f","t"," ","/"," ","A","c","c","o","u","n","t"," ","T","a","k","e","o","v","e","r">>
CyberBullying         == <<"C","y","b","e","r"," ","B","u","l","l","y","i","n","g"," ","/"," ","T","h","r","e","a","t","s">>
JobRecruitmentScam    == <<"J","o","b"," ","/"," ","R","e","c","r","u","i","t","m","e","n","t"," ","S","c","a","m">>
OtherGeneral          == <<"O","t","h","e","r"," ","/"," ","G","e","n","e","r","a","l"," ","C","y","b","e","r","c","r","i","m","e">>

\* The dict CRIME_KEYWORDS in insertion order: <<key, list of keywords>>.
CRIME_KEYWORDS ==
    << << SocialMediaHarassment,
          << <<"i","n","s","t","a","g","r","a","m">>, <<"f","a","c","e","b","o","o","k">>, <<"t","w","i","t","t","e","r">>, <<"x",".","c","o","m">>, <<"s","n","a","p","c","h","a","t">>,
             <<"s","o","c","i","a","l"," ","m","e","d","i","a">>, <<"p","r","o","f","i","l","e">>, <<"s","t","o","r","y">>, <<"r","e","e","l">>, <<"d","m">>,
             <<"d","i","r","e","c","t"," ","m","e","s","s","a","g","e">>, <<"t","r","o","l","l">>, <<"a","b","u","s","e">>, <<"h","a","r","a","s","s">>,
             <<"s","t","a","l","k","i","n","g">>, <<"s","t","a","l","k","e","r">> >> >>,
       << OnlineFinancialFraud,
          << <<"o","t","p">>, <<"o","n","e"," ","t","i","m","e"," ","p","a","s","s","w","o","r","d">>, <<"b","a","n","k">>, <<"u","p","i">>, <<"g","p","a","y">>,
             <<"p","h","o","n","e","p","e">>, <<"p","a","y","t","m">>, <<"c","r","e","d","i","t"," ","c","a","r","d">>, <<"d","e","b","i","t"," ","c","a","r","d">>, <<"l","o","a","n">>,
             <<"k","b","c">>, <<"l","o","t","t","e","r","y">>, <<"p","r","i","z","e">>, <<"f","a","k","e"," ","l","i","n","k">>, <<"p","h","i","s","h","i","n","g">>,
             <<"f","r","a","u","d">>, <<"p","a","y","m","e","n","t">>, <<"i","n","v","e","s","t","m","e","n","t">>, <<"t","r","a","d","i","n","g">>, <<"c","r","y","p","t","o">>,
             <<"b","i","t","c","o","i","n">> >> >>,
       << IdentityTheft,
          << <<"h","a","c","k","e","d">>, <<"a","c","c","o","u","n","t"," ","t","a","k","e","n">>, <<"l","o","g","i","n">>, <<"p","a","s","s","w","o","r","d">>,
             <<"c","r","e","d","e","n","t","i","a","l">>, <<"s","i","m"," ","s","w","a","p">>, <<"s","i","m","-","s","w","a","p","p","i","n","g">>, <<"e","m","a","i","l"," ","h","a","c","k","e","d">>,
             <<"w","h","a","t","s","a","p","p"," ","h","a","c","k","e","d">>, <<"t","e","l","e","g","r","a","m"," ","h","a","c","k","e","d">> >> >>,
       << CyberBullying,
          << <<"t","h","r","e","a","t">>, <<"b","l","a","c","k","m","a","i","l">>, <<"m","o","r","p","h","e","d">>, <<"n","u","d","e">>, <<"l","e","a","k">>,
             <<"c","o","m","p","r","o","m","i","s","e">>, <<"i","n","s","u","l","t">>, <<"a","b","u","s","i","v","e">>, <<"d","e","f","a","m","e">>,
             <<"r","e","v","e","n","g","e"," ","p","o","r","n">> >> >>,
       << JobRecruitmentScam,
          << <<"j","o","b"," ","o","f","f","e","r">>, <<"p","l","a","c","e","m","e","n","t">>, <<"r","e","c","r","u","i","t","m","e","n","t">>, <<"h","r">>,
             <<"w","o","r","k"," ","f","r","o","m"," ","h","o","m","e">>, <<"d","a","t","a"," ","e","n","t","r","y">>, <<"t","y","p","i","n","g"," ","j","o","b">> >> >>,
       << OtherGeneral, << >> >> >>

HIGH_PRIORITY_PATTERNS ==
    << <<"t","h","r","e","a","t","e","n">>, <<"b","l","a","c","k","m","a","i","l">>, <<"k","i","l","l">>, <<"m","u","r","d","e","r">>, <<"r","e","v","e","n","g","e"," ","p","o","r","n">>,
       <<"m","i","n","o","r">>, <<"c","h","i","l","d">>, <<"r","a","p","e">>, <<"s","e","x","u","a","l">>, <<"l","i","f","e"," ","i","n"," ","d","a","n","g","e","r">>,
       <<"s","u","i","c","i","d","e">>, <<"e","x","t","o","r","t">>, <<"e","x","t","o","r","t","i","o","n">> >>

MEDIUM_PRIORITY_PATTERNS ==
    << <<"h","a","c","k","e","d">>, <<"a","c","c","o","u","n","t"," ","t","a","k","e","n">>, <<"l","o","s","t"," ","m","o","n","e","y">>, <<"w","i","t","h","d","r","a","w","n">>,
       <<"f","r","a","u","d">>, <<"p","h","i","s","h","i","n","g">>, <<"s","c","a","m">>, <<"h","a","r","a","s","s">>, <<"s","t","a","l","k","i","n","g">> >>

EXAMPLE_COMPLAINTS ==
    << <<"S","o","m","e","o","n","e"," ","h","a","c","k","e","d"," ","m","y"," ","I","n","s","t","a","g","r","a","m"," ","a","c","c","o","u","n","t"," ","a","n","d"," ","i","s"," ","t","h","r","e","a","t","e","n","i","n","g"," ","t","o"," ","l","e","a","k"," ","m","y"," ","p","h","o","t","o","s"," ","i","f"," ","I"," ","d","o","n","'","t"," ","p","a","y",".">>,
       <<"I"," ","r","e","c","e","i","v","e","d"," ","a"," ","f","a","k","e"," ","b","a","n","k"," ","S","M","S"," ","a","s","k","i","n","g"," ","f","o","r"," ","m","y"," ","O","T","P",","," ","a","n","d"," ","a","f","t","e","r"," ","e","n","t","e","r","i","n","g"," ","i","t",","," ","m","o","n","e","y"," ","w","a","s"," ","d","e","b","i","t","e","d"," ","f","r","o","m"," ","m","y"," ","a","c","c","o","u","n","t",".">>,
       <<"U","n","k","n","o","w","n"," ","p","e","r","s","o","n"," ","i","s"," ","c","o","n","t","i","n","u","o","u","s","l","y"," ","c","a","l","l","i","n","g"," ","a","n","d"," ","s","e","n","d","i","n","g"," ","a","b","u","s","i","v","e"," ","W","h","a","t","s","A","p","p"," ","m","e","s","s","a","g","e","s"," ","t","o"," ","m","y"," ","d","a","u","g","h","t","e","r",".">>,
       <<"I"," ","s","a","w"," ","a"," ","w","o","r","k"," ","f","r","o","m"," ","h","o","m","e"," ","j","o","b"," ","o","f","f","e","r"," ","o","n"," ","T","e","l","e","g","r","a","m",","," ","p","a","i","d"," ","a"," ","r","e","g","i","s","t","r","a","t","i","o","n"," ","f","e","e"," ","a","n","d"," ","t","h","e","n"," ","t","h","e","y"," ","b","l","o","c","k","e","d"," ","m","e",".">>,
       <<"M","y"," ","e","m","a","i","l"," ","a","n","d"," ","F","a","c","e","b","o","o","k"," ","a","c","c","o","u","n","t","s"," ","w","e","r","e"," ","h","a","c","k","e","d"," ","a","n","d"," ","t","h","e"," ","a","t","t","a","c","k","e","r"," ","i","s"," ","m","e","s","s","a","g","i","n","g"," ","m","y"," ","c","o","n","t","a","c","t","s",".">>,
       <<"O","u","r"," ","o","f","f","i","c","e"," ","c","o","m","p","u","t","e","r"," ","r","e","c","e","i","v","e","d"," ","m","u","l","t","i","p","l","e"," ","l","o","g","i","n"," ","a","t","t","e","m","p","t","s"," ","f","r","o","m"," ","a","n"," ","u","n","k","n","o","w","n"," ","f","o","r","e","i","g","n"," ","I","P",".">> >>

\* ------------------------------------------------------- Python str methods

UpperLetters == <<"A","B","C","D","E","F","G","H","I","J","K","L","M","N","O","P","Q","R","S","T","U","V","W","X","Y","Z">>
LowerLetters == <<"a","b","c","d","e","f","g","h","i","j","k","l","m","n","o","p","q","r","s","t","u","v","w","x","y","z">>

\* str.lower() on one character: an upper-case letter goes to its lower-case
\* letter; every other character, U+017F included (it is lower case
\* already), stays.
ToLower ==
    [c \in Range(UpperLetters) |->
        LowerLetters[CHOOSE k \in DOMAIN UpperLetters : UpperLetters[k] = c]]

LowerChar(c) == IF c \in DOMAIN ToLower THEN ToLower[c] ELSE c

lower(text) == [i \in DOMAIN text |-> LowerChar(text[i])]

\* str.isspace() on one character, over the characters of the model.
IsSpace(c) == c \in {" ", "\t", "\n"}

\* str.strip(): leading and trailing whitespace removed.
strip(text) ==
    LET keep == {i \in DOMAIN text : ~IsSpace(text[i])}
    IN  IF keep = {} THEN << >>
        ELSE LET first == CHOOSE i \in keep : \A j \in keep : i <= j
                 last  == CHOOSE i \in keep : \A j \in keep : j <= i
             IN  SubSeq(text, first, last)

\* `needle in text`: needle occurs at some position of text.
OccursAt(needle, text, i) ==
    \A j \in 1..Len(needle) : text[i + j - 1] = needle[j]

\* Mutant: text.startswith(needle) in place of `needle in text`.
Contains_PrefixOnly(needle, text) ==
    Len(needle) <= Len(text) /\ OccursAt(needle, text, 1)

Contains(needle, text) ==
    \E i \in 1..(Len(text) - Len(needle) + 1) : OccursAt(needle, text, i)

\* re.search(pattern, text): every pattern of the two priority lists is made
\* of letters and spaces only, so the regular expression matches exactly where
\* the pattern occurs literally.
re_search(pattern, text) == Contains(pattern, text)

\* ------------------------------------------------------------ classifier

\* The inner loop of classify_crime_type for one crime type, from keyword k
\* on: score += 1 for every keyword that occurs in text_l.
RECURSIVE ScoreLoop(_, _, _)
ScoreLoop(keywords, text_l, k) ==
    IF k > Len(keywords) THEN 0
    ELSE (IF Contains(keywords[k], text_l) THEN 1 ELSE 0)
         + ScoreLoop(keywords, text_l, k + 1)

\* Mutant: the loop misses the first keyword of the list.
KeywordScore_SkipFirst(keywords, text_l) == ScoreLoop(keywords, text_l, 2)

\* Mutant: score += text_l.count(kw), every occurrence counted.
RECURSIVE OccurrenceLoop(_, _, _)
OccurrenceLoop(keywords, text_l, k) ==
    IF k > Len(keywords) THEN 0
    ELSE Cardinality({ i \in 1..(Len(text_l) - Len(keywords[k]) + 1) :
                         OccursAt(keywords[k], text_l, i) })
         + OccurrenceLoop(keywords, text_l, k + 1)

KeywordScore_Occurrences(keywords, text_l) == OccurrenceLoop(keywords, text_l, 1)

KeywordScore(keywords, text_l) == ScoreLoop(keywords, text_l, 1)

\* The dict scores after the two loops, as a sequence in key order.
Scores(text_l) ==
    [c \in DOMAIN CRIME_KEYWORDS |-> KeywordScore(CRIME_KEYWORDS[c][2], text_l)]

\* max(scores, key=scores.get): the keys are visited in insertion order and
\* the one kept is replaced only by a key with a strictly greater score.
RECURSIVE MaxLoop(_, _, _)
MaxLoop(sc, c, best) ==
    IF c > Len(sc) THEN best
    ELSE MaxLoop(sc, c + 1, IF sc[c] > sc[best] THEN c ELSE best)

\* Mutant: a key with an equal score replaces the one kept (the last wins).
RECURSIVE MaxLoop_LastWins(_, _, _)
MaxLoop_LastWins(sc, c, best) ==
    IF c > Len(sc) THEN best
    ELSE MaxLoop_LastWins(sc, c + 1, IF sc[c] >= sc[best] THEN c ELSE best)

MaxKey_LastWins(sc) == MaxLoop_LastWins(sc, 2, 1)

MaxKey(sc) == MaxLoop(sc, 2, 1)

\* Mutant: the all-zero test is left out.
classify_crime_type_NoFallback(text) ==
    CRIME_KEYWORDS[MaxKey(Scores(lower(text)))][1]

classify_crime_type(text) ==
    LET text_l == lower(text)
        scores == Scores(text_l)
    IN  IF \A c \in DOMAIN scores : scores[c] = 0
        THEN OtherGeneral
        ELSE CRIME_KEYWORDS[MaxKey(scores)][1]

\* for pattern in patterns: if re.search(pattern, text_l): return ...
RECURSIVE AnyMatch(_, _, _)
AnyMatch(patterns, text_l, k) ==
    IF k > Len(patterns) THEN FALSE
    ELSE IF re_search(patterns[k], text_l) THEN TRUE
    ELSE AnyMatch(patterns, text_l, k + 1)

\* Mutant: the medium-priority list is tried first.
classify_priority_MediumFirst(text) ==
    LET text_l == lower(text)
    IN  IF AnyMatch(MEDIUM_PRIORITY_PATTERNS, text_l, 1) THEN "Medium"
        ELSE IF AnyMatch(HIGH_PRIORITY_PATTERNS, text_l, 1) THEN "High"
        ELSE "Low"

\* Mutant: the function falls through to "Medium".
classify_priority_DefaultMedium(text) ==
    LET text_l == lower(text)
    IN  IF AnyMatch(HIGH_PRIORITY_PATTERNS, text_l, 1) THEN "High"
        ELSE "Medium"

classify_priority(text) ==
    LET text_l == lower(text)
    IN  IF AnyMatch(HIGH_PRIORITY_PATTERNS, text_l, 1) THEN "High"
        ELSE IF AnyMatch(MEDIUM_PRIORITY_PATTERNS, text_l, 1) THEN "Medium"
        ELSE "Low"

\* The unit names are compared as wholes only, so they stay TLA+ strings (the
\* apostrophe of the first one is U+2019 in the source).
\* Mutant: the first branch tests "Harassment" only.
suggest_unit_NoBullying(crime_type) ==
    IF Contains(<<"H","a","r","a","s","s","m","e","n","t">>, crime_type)
    THEN "Women's Safety / Cyber Harassment Cell"
    ELSE IF Contains(<<"F","i","n","a","n","c","i","a","l"," ","F","r","a","u","d">>, crime_type) \/ Contains(<<"P","h","i","s","h","i","n","g">>, crime_type)
    THEN "Cyber Financial Fraud Unit"
    ELSE IF Contains(<<"I","d","e","n","t","i","t","y"," ","T","h","e","f","t">>, crime_type) \/ Contains(<<"A","c","c","o","u","n","t"," ","T","a","k","e","o","v","e","r">>, crime_type)
    THEN "Cyber Crime Investigation Unit"
    ELSE IF Contains(<<"J","o","b"," ","/"," ","R","e","c","r","u","i","t","m","e","n","t"," ","S","c","a","m">>, crime_type)
    THEN "Economic Offences / Cyber Fraud Unit"
    ELSE "General Cyber Crime Cell"

suggest_unit(crime_type) ==
    IF Contains(<<"H","a","r","a","s","s","m","e","n","t">>, crime_type) \/ Contains(<<"B","u","l","l","y","i","n","g">>, crime_type)
    THEN "Women's Safety / Cyber Harassment Cell"
    ELSE IF Contains(<<"F","i","n","a","n","c","i","a","l"," ","F","r","a","u","d">>, crime_type) \/ Contains(<<"P","h","i","s","h","i","n","g">>, crime_type)
    THEN "Cyber Financial Fraud Unit"
    ELSE IF Contains(<<"I","d","e","n","t","i","t","y"," ","T","h","e","f","t">>, crime_type) \/ Contains(<<"A","c","c","o","u","n","t"," ","T","a","k","e","o","v","e","r">>, crime_type)
    THEN "Cyber Crime Investigation Unit"
    ELSE IF Contains(<<"J","o","b"," ","/"," ","R","e","c","r","u","i","t","m","e","n","t"," ","S","c","a","m">>, crime_type)
    THEN "Economic Offences / Cyber Fraud Unit"
    ELSE "General Cyber Crime Cell"

\* ------------------------------------------------------------- case queue

DigitChars == <<"0","1","2","3","4","5","6","7","8","9">>

\* The decimal digits of n >= 0, most significant first.
RECURSIVE Decimal(_)
Decimal(n) ==
    IF n < 10 THEN << DigitChars[n + 1] >>
    ELSE Append(Decimal(n \div 10), DigitChars[(n % 10) + 1])

\* The format spec 03d: zero-padded on the left to at least three characters.
RECURSIVE ZeroPad(_, _)
ZeroPad(digits, width) ==
    IF Len(digits) >= width THEN digits ELSE ZeroPad(<<"0">> \o digits, width)

CaseIdWidth == 3

\* f"C-{case_id:03d}"
FormatCaseId(case_id) == <<"C","-">> \o ZeroPad(Decimal(case_id), CaseIdWidth)

\* Mutant: case_id = len(cases), the + 1 forgotten.
NewCase_ZeroBased(text, n) ==
    [ CaseID        |-> FormatCaseId(n),
      Complaint     |-> strip(text),
      CrimeType     |-> classify_crime_type(text),
      Priority      |-> classify_priority(text),
      SuggestedUnit |-> suggest_unit(classify_crime_type(text)) ]

\* The record appended for a complaint when the queue holds n cases.
NewCase(text, n) ==
    LET crime_type == classify_crime_type(text)
        priority   == classify_priority(text)
        unit       == suggest_unit(crime_type)
        case_id    == n + 1
    IN  [ CaseID        |-> FormatCaseId(case_id),
          Complaint     |-> strip(text),
          CrimeType     |-> crime_type,
          Priority      |-> priority,
          SuggestedUnit |-> unit ]

\* ----------------------------------------------------------------- bounds

MaxCases == 3     \* cases the queue may hold
MaxFrags == 2     \* fragments a typed complaint is made of

\* What a user types is put together from these fragments: keywords of every
\* crime type in both letter cases, a keyword holding another one ("email
\* hacked"), a keyword repeated ("bank to bank"), a pattern only ("kill"), a
\* pattern completed by the next fragment ("threat" + "en"), a word written
\* with U+017F and white space.
Fragments ==
    << <<"I","n","s","t","a","g","r","a","m"," ">>, <<"O","T","P"," ">>, <<"l","o","g","i","n"," ">>, <<"e","m","a","i","l"," ","h","a","c","k","e","d"," ">>, <<"l","e","a","k"," ">>,
       <<"p","l","a","c","e","m","e","n","t"," ">>, <<"t","h","r","e","a","t">>, <<"e","n"," ">>, <<"LONG_S","t","o","r","y"," ">>, <<"k","i","l","l"," ">>,
       <<"b","a","n","k"," ","t","o"," ","b","a","n","k"," ">>, <<" ">> >>

RECURSIVE Join(_)
Join(fs) == IF fs = << >> THEN << >> ELSE Fragments[Head(fs)] \o Join(Tail(fs))

TypedComplaints ==
    UNION { { Join(fs) : fs \in [1..n -> DOMAIN Fragments] } : n \in 0..MaxFrags }

Complaints == TypedComplaints \cup Range(EXAMPLE_COMPLAINTS)

\* Texts typed into the app while the queue is followed.
QueueTexts == { <<>>, <<" ","\n","\t">>, <<" ","k","i","l","l"," ">>, <<"o","t","p">> }

\* ---------------------------------------------------------------- actions

\* One run of the script with the "Analyze & Add to Queue" button pressed.
PressAdd ==
    /\ Len(cases) < MaxCases \/ strip(complaint_text) = << >>
    /\ add_case' = TRUE
    /\ clear_btn' = FALSE
    /\ cases' = IF strip(complaint_text) # << >>
                THEN Append(cases, NewCase(complaint_text, Len(cases)))
                ELSE cases
    /\ UNCHANGED complaint_text

\* One run of the script with the "Clear All Cases" button pressed.
PressClear ==
    /\ clear_btn' = TRUE
    /\ add_case' = FALSE
    /\ cases' = << >>
    /\ UNCHANGED complaint_text

\* One run of the script after the text area was edited.
EditComplaint ==
    /\ \E t \in QueueTexts : complaint_text' = t
    /\ add_case' = FALSE
    /\ clear_btn' = FALSE
    /\ UNCHANGED cases

\* One run of the script after an option of the sidebar's select box was
\* chosen: the text area takes default_text as its value, the sample chosen
\* or, for the option "(None ...)" (0 here), the empty text.
SelectExample ==
    /\ \E e \in 0..Len(EXAMPLE_COMPLAINTS) :
          complaint_text' = IF e = 0 THEN << >> ELSE EXAMPLE_COMPLAINTS[e]
    /\ add_case' = FALSE
    /\ clear_btn' = FALSE
    /\ UNCHANGED cases

\* The classifier on every complaint of Complaints: the complaint is fixed
\* at the start and the buttons are pressed.
Init ==
    /\ complaint_text \in Complaints
    /\ cases = << >>
    /\ add_case = FALSE
    /\ clear_btn = FALSE

Next == PressAdd \/ PressClear

Spec == Init /\ [][Next]_vars

\* The app from its first run: the text area is empty and the queue too.
AppInit ==
    /\ complaint_text = << >>
    /\ cases = << >>
    /\ add_case = FALSE
    /\ clear_btn = FALSE

AppNext == EditComplaint \/ SelectExample \/ PressAdd \/ PressClear

AppSpec == AppInit /\ [][AppNext]_vars

\* ------------------------------------------------- vocabulary of the claims

\* For every crime type in table order, the number of its keywords that
\* occur in the lowercased text.
HitCounts(text) ==
    LET text_l == lower(text)
    IN  [c \in DOMAIN CRIME_KEYWORDS |->
            Cardinality({ k \in DOMAIN CRIME_KEYWORDS[c][2] :
                            Contains(CRIME_KEYWORDS[c][2][k], text_l) })]

\* The number of positions of text at which needle occurs.
Occurrences(needle, text) ==
    Cardinality({ i \in 1..(Len(text) - Len(needle) + 1) : OccursAt(needle, text, i) })

MatchesHigh(text) ==
    LET text_l == lower(text)
    IN  \E k \in DOMAIN HIGH_PRIORITY_PATTERNS :
            Contains(HIGH_PRIORITY_PATTERNS[k], text_l)

MatchesMedium(text) ==
    LET text_l == lower(text)
    IN  \E k \in DOMAIN MEDIUM_PRIORITY_PATTERNS :
            Contains(MEDIUM_PRIORITY_PATTERNS[k], text_l)

\* The position in CRIME_KEYWORDS of a crime type.
TypeIndex(crime_type) ==
    CHOOSE c \in DOMAIN CRIME_KEYWORDS : CRIME_KEYWORDS[c][1] = crime_type

NonFallback == { c \in DOMAIN CRIME_KEYWORDS : CRIME_KEYWORDS[c][1] # OtherGeneral }

\* Under Spec the complaint never changes, so every stored case was analysed
\* from complaint_text.
Analysed == cases # << >>

\* ------------------------------------------------------------------ C1

\* C1: the priority of a complaint is High when some high-priority pattern
\* occurs in the lowercased text (whatever medium pattern occurs too), Medium
\* when no high pattern but some medium pattern occurs, and Low when no
\* pattern of either list occurs.
C1_PriorityByPatterns ==
    LET expected == IF MatchesHigh(complaint_text) THEN "High"
                    ELSE IF MatchesMedium(complaint_text) THEN "Medium"
                    ELSE "Low"
    IN  /\ classify_priority(complaint_text) = expected
        /\ \A i \in DOMAIN cases : cases[i].Priority = expected

\* A complaint matching a high and a medium pattern was analysed as High.
C1_Witness ==
    /\ Analysed
    /\ MatchesHigh(complaint_text)
    /\ MatchesMedium(complaint_text)
    /\ cases[1].Priority = "High"

\* ------------------------------------------------------------------ C2

NoKeyword(hits) == \A c \in DOMAIN hits : hits[c] = 0

\* C2: a complaint containing no keyword of any crime type, the empty one
\* included, is classified as Other / General Cybercrime.
C2_NoKeywordIsOther ==
    NoKeyword(HitCounts(complaint_text))
    => /\ classify_crime_type(complaint_text) = OtherGeneral
       /\ \A i \in DOMAIN cases : cases[i].CrimeType = OtherGeneral

\* A non-empty complaint without any keyword was analysed.
C2_Witness ==
    /\ Analysed
    /\ NoKeyword(HitCounts(complaint_text))
    /\ cases[1].CrimeType = OtherGeneral

\* ------------------------------------------------------------------ C3

\* Exactly one keyword of crime type c occurs and no keyword of another type.
OnlyOneKeywordOf(c, hits) ==
    /\ hits[c] = 1
    /\ \A d \in DOMAIN hits : d # c => hits[d] = 0

\* C3: a complaint containing exactly one keyword of a crime type C other
\* than the fallback, and no keyword of any other type, is classified as C.
C3_SingleKeyword ==
    LET hits == HitCounts(complaint_text)
    IN  \A c \in NonFallback :
            OnlyOneKeywordOf(c, hits)
            => \A i \in DOMAIN cases : cases[i].CrimeType = CRIME_KEYWORDS[c][1]

\* A complaint whose only keyword is one of Job / Recruitment Scam, the last
\* type with keywords, was analysed.
C3_Witness ==
    /\ Analysed
    /\ OnlyOneKeywordOf(TypeIndex(JobRecruitmentScam), HitCounts(complaint_text))
    /\ cases[1].CrimeType = JobRecruitmentScam

\* ------------------------------------------------------------------ C4

\* The crime types holding the highest number of keyword hits.
TopTypes(hits) ==
    { c \in DOMAIN hits : \A d \in DOMAIN hits : hits[d] <= hits[c] }

Tied(hits) ==
    /\ Cardinality(TopTypes(hits)) >= 2
    /\ \E c \in TopTypes(hits) : hits[c] > 0

FirstOf(S) == CHOOSE c \in S : \A d \in S : c <= d

\* C4: when two or more crime types tie for the highest nonzero score, the
\* complaint is classified as the tied type that comes first in the order of
\* CRIME_KEYWORDS.
C4_TieFirstInOrder ==
    LET hits  == HitCounts(complaint_text)
        first == CRIME_KEYWORDS[FirstOf(TopTypes(hits))][1]
    IN  Tied(hits)
        => \A i \in DOMAIN cases : cases[i].CrimeType = first

\* A complaint with exactly one keyword of each of two crime types, neither
\* of them the first type of the table, was analysed as the earlier of the two.
C4_Witness ==
    LET hits == HitCounts(complaint_text)
    IN  /\ Analysed
        /\ Tied(hits)
        /\ Cardinality(TopTypes(hits)) = 2
        /\ \A c \in TopTypes(hits) : hits[c] = 1 /\ c > 1
        /\ TypeIndex(cases[1].CrimeType) = FirstOf(TopTypes(hits))

\* ------------------------------------------------------------------ C5

\* The unit the routing rule names for each crime type, in table order.
SpecifiedUnit ==
    << "Women's Safety / Cyber Harassment Cell",
       "Cyber Financial Fraud Unit",
       "Cyber Crime Investigation Unit",
       "Women's Safety / Cyber Harassment Cell",
       "Economic Offences / Cyber Fraud Unit",
       "General Cyber Crime Cell" >>

\* C5: suggest_unit gives every one of the six crime types the unit of its
\* own branch (none is caught by an earlier branch), and every stored case
\* carries the unit of its crime type.
C5_UnitOfEveryType ==
    /\ \A c \in DOMAIN CRIME_KEYWORDS :
          suggest_unit(CRIME_KEYWORDS[c][1]) = SpecifiedUnit[c]
    /\ \A i \in DOMAIN cases :
          cases[i].SuggestedUnit = SpecifiedUnit[TypeIndex(cases[i].CrimeType)]

\* A Job / Recruitment Scam case, routed by the last branch before the
\* default, is stored.
C5_Witness ==
    /\ Analysed
    /\ cases[1].CrimeType = JobRecruitmentScam
    /\ cases[1].SuggestedUnit = "Economic Offences / Cyber Fraud Unit"

\* ------------------------------------------------------------------ C6

\* C6 as stated: the first sample complaint ("Someone hacked my Instagram
\* account and is threatening to leak my photos if I don't pay.") is
\* classified as Social Media Harassment or as Identity Theft / Account
\* Takeover.
C6_Example1AsStated ==
    complaint_text = EXAMPLE_COMPLAINTS[1]
    => \A i \in DOMAIN cases :
          cases[i].CrimeType \in {SocialMediaHarassment, IdentityTheft}

\* C6 amended: the first sample complaint is classified as Cyber Bullying /
\* Threats: two of that type's keywords occur in it ("threat" and "leak") and
\* one of each of Social Media Harassment, Identity Theft / Account Takeover
\* and Job / Recruitment Scam.
C6_Example1IsBullying ==
    complaint_text = EXAMPLE_COMPLAINTS[1]
    => /\ HitCounts(complaint_text) = <<1, 0, 1, 2, 1, 0>>
       /\ \A i \in DOMAIN cases : cases[i].CrimeType = CyberBullying

\* The first sample complaint was analysed.
C6_Witness ==
    /\ Analysed
    /\ complaint_text = EXAMPLE_COMPLAINTS[1]
    /\ cases[1].Complaint = EXAMPLE_COMPLAINTS[1]

\* ------------------------------------------------------------------ C7

\* C7 as stated: the second sample complaint ("I received a fake bank SMS
\* asking for my OTP, and after entering it, money was debited from my
\* account.") has priority Medium.
C7_Example2AsStated ==
    complaint_text = EXAMPLE_COMPLAINTS[2]
    => \A i \in DOMAIN cases : cases[i].Priority = "Medium"

\* C7 amended: the second sample complaint has priority Low: no pattern of
\* the high-priority list and none of the medium-priority list occurs in it.
C7_Example2IsLow ==
    complaint_text = EXAMPLE_COMPLAINTS[2]
    => /\ ~MatchesHigh(complaint_text)
       /\ ~MatchesMedium(complaint_text)
       /\ \A i \in DOMAIN cases : cases[i].Priority = "Low"

\* The second sample complaint was analysed.
C7_Witness ==
    /\ Analysed
    /\ complaint_text = EXAMPLE_COMPLAINTS[2]
    /\ cases[1].Complaint = EXAMPLE_COMPLAINTS[2]

\* ------------------------------------------------------------------ C8

\* str.upper() on one character: a lower-case letter goes to its upper-case
\* letter, U+017F goes to "S", every other character stays.
ToUpper ==
    [c \in Range(LowerLetters) |->
        UpperLetters[CHOOSE k \in DOMAIN LowerLetters : LowerLetters[k] = c]]

UpperChar(c) ==
    IF c \in DOMAIN ToUpper THEN ToUpper[c]
    ELSE IF c = "LONG_S" THEN "S"
    ELSE c

upper(text) == [i \in DOMAIN text |-> UpperChar(text[i])]

\* C8: the crime type and the priority of a complaint are those of the same
\* complaint upper-cased and of the same complaint lower-cased.
C8_CaseInsensitive ==
    \A i \in DOMAIN cases :
        /\ cases[i].CrimeType = classify_crime_type(upper(complaint_text))
        /\ cases[i].CrimeType = classify_crime_type(lower(complaint_text))
        /\ cases[i].Priority = classify_priority(upper(complaint_text))
        /\ cases[i].Priority = classify_priority(lower(complaint_text))

\* The same statement over the complaints written without U+017F, where
\* lower() undoes upper(): there it holds.
C8_CaseInsensitiveAscii ==
    (\A k \in DOMAIN complaint_text : complaint_text[k] # "LONG_S")
    => C8_CaseInsensitive

\* ------------------------------------------------------------------ C9

\* One keyword of crime type a occurs, and occurs more than once; two
\* different keywords of crime type b occur; no keyword of a third type does.
RepeatedAgainstTwo(a, b, text_l, hits) ==
    /\ a # b
    /\ hits[a] = 1
    /\ \E k \in DOMAIN CRIME_KEYWORDS[a][2] :
          Occurrences(CRIME_KEYWORDS[a][2][k], text_l) >= 2
    /\ hits[b] = 2
    /\ \A d \in DOMAIN hits : d \notin {a, b} => hits[d] = 0

\* C9: the score of a crime type is the number of its keywords that occur at
\* least once in the lowercased text, however often each occurs; the crime
\* type returned has the highest score of all; so a complaint that repeats
\* one keyword of a type A and holds two different keywords of a type B (and
\* no other keyword) is classified as B.
C9_ScoreCountsDistinctKeywords ==
    LET text_l == lower(complaint_text)
        hits   == HitCounts(complaint_text)
    IN  /\ Scores(text_l) = hits
        /\ \A i \in DOMAIN cases :
              \A c \in DOMAIN hits : hits[c] <= hits[TypeIndex(cases[i].CrimeType)]
        /\ \A a, b \in NonFallback :
              RepeatedAgainstTwo(a, b, text_l, hits)
              => \A i \in DOMAIN cases : cases[i].CrimeType = CRIME_KEYWORDS[b][1]

\* A complaint repeating one keyword of a type and holding two keywords of
\* another type was analysed as the other type.
C9_Witness ==
    LET text_l == lower(complaint_text)
        hits   == HitCounts(complaint_text)
    IN  /\ Analysed
        /\ \E a, b \in NonFallback :
              /\ RepeatedAgainstTwo(a, b, text_l, hits)
              /\ cases[1].CrimeType = CRIME_KEYWORDS[b][1]

\* ------------------------------------------------------------------ C10

DigitValue(ch) == (CHOOSE k \in DOMAIN DigitChars : DigitChars[k] = ch) - 1

\* int() of a sequence of decimal digits.
RECURSIVE ParseInt(_)
ParseInt(digits) ==
    IF digits = << >> THEN 0
    ELSE 10 * ParseInt(SubSeq(digits, 1, Len(digits) - 1))
         + DigitValue(digits[Len(digits)])

\* "C-" followed by at least three decimal digits.
WellFormedId(id) ==
    /\ Len(id) >= 5
    /\ SubSeq(id, 1, 2) = <<"C","-">>
    /\ \A k \in 3..Len(id) : id[k] \in Range(DigitChars)

CaseNumber(id) == ParseInt(SubSeq(id, 3, Len(id)))

\* The i-th stored case carries the case id of number i.
IdsFollowInsertion ==
    \A i \in DOMAIN cases :
        /\ WellFormedId(cases[i].CaseID)
        /\ CaseNumber(cases[i].CaseID) = i

IdsUnique ==
    \A i, j \in DOMAIN cases : i # j => cases[i].CaseID # cases[j].CaseID

\* C10: in the queue the i-th stored case has case id number i, so the ids
\* are unique and consecutive from C-001; pressing "Analyze & Add to Queue"
\* on an empty or whitespace-only text leaves the queue unchanged; "Clear
\* All Cases" empties the queue and the case added next is C-001 again.
C10_CaseIds ==
    /\ [](IdsFollowInsertion /\ IdsUnique)
    /\ [][(add_case' /\ strip(complaint_text') = << >>) => cases' = cases]_vars
    /\ [][(add_case' /\ strip(complaint_text') # << >>)
            => /\ Len(cases') = Len(cases) + 1
               /\ SubSeq(cases', 1, Len(cases)) = cases]_vars
    /\ [][clear_btn' => cases' = << >>]_vars
    /\ [][(cases = << >> /\ cases' # << >>)
            => (Len(cases') = 1 /\ cases'[1].CaseID = <<"C","-","0","0","1">>)]_vars

\* A second, different complaint was just added to the queue.
C10_Witness ==
    /\ add_case
    /\ Len(cases) = 2
    /\ cases[2].Complaint = strip(complaint_text)
    /\ cases[1].Complaint # cases[2].Complaint
    /\ cases[2].CaseID = <<"C","-","0","0","2">>

====
